---- MODULE Spec2Model ----
(* Compile-command ingestion of cquery (src/project.cc): the flag          *)
(* classifier GetCompilationEntryFromCompileCommandEntry, Project::Load,   *)
(* Project::FindCompilationEntryForFile with its guess score, and the     *)
(* threads reading the loaded Project (ForAllFilteredFiles included).      *)
(* A std::string is a sequence of one-character strings, so that prefix,   *)
(* suffix and character tests are computed as the code computes them.      *)
EXTENDS Integers, Sequences, FiniteSets, TLC

VARIABLES
  pc,                                  \* position of the calling code
  g_disable_normalize_path_for_test,   \* project.cc:30
  config,                              \* the ProjectConfig handed to the classifier
  entry,                               \* the CompileCommandsEntry being classified
  result,                              \* the Project::Entry last returned
  aborted,                             \* an assert of the classifier failed
  lead,                                \* number of args pushed before the filter loop
  kept,                                \* raw indices (0-based) pushed by the filter loop
  fs,                                  \* build description on disk: .cquery, compile_commands.json, files
  entries,                             \* Project::entries
  absolute_path_to_entry_index_,       \* Project::absolute_path_to_entry_index_
  quote_include_directories,           \* Project::quote_include_directories
  angle_include_directories,           \* Project::angle_include_directories
  query,                               \* argument of FindCompilationEntryForFile
  readers,                             \* locals of the threads reading the loaded Project
  calls                                \* the classifier calls that returned: inputs and outputs

vars == <<pc, g_disable_normalize_path_for_test, config, entry, result, aborted,
          lead, kept, fs, entries, absolute_path_to_entry_index_,
          quote_include_directories, angle_include_directories, query,
          readers, calls>>

classifierVars == <<config, entry, result, aborted, lead, kept, calls>>
projectVars == <<fs, entries, absolute_path_to_entry_index_,
                 quote_include_directories, angle_include_directories, query,
                 readers>>

(* ------------------------------ bounds ---------------------------------- *)
MaxArgs == 3
MaxEntries == 3

(* --------------------------- string helpers ----------------------------- *)
StartsWith(value, start) ==
  /\ Len(start) <= Len(value)
  /\ SubSeq(value, 1, Len(start)) = start

EndsWith(value, ending) ==
  /\ Len(ending) <= Len(value)
  /\ SubSeq(value, Len(value) - Len(ending) + 1, Len(value)) = ending

StartsWithAny(value, startings) ==
  \E j \in 1..Len(startings) : StartsWith(value, startings[j])

AnyStartsWith(values, start) ==
  \E j \in 1..Len(values) : StartsWith(values[j], start)

SeqsUpTo(S, n) == UNION {[1..m -> S] : m \in 0..n}

Digits == {"0", "1", "2", "3", "4", "5", "6", "7", "8", "9"}

(* std::string::operator[] at size() yields the terminating NUL. *)
CharAt(s, i) == IF i < Len(s) THEN s[i + 1] ELSE "NUL"

(* Mutation: the position of the first '.' instead of the last one. *)
RFindDot_first(s) ==
  LET ds == {p \in 1..Len(s) : s[p] = "."}
  IN IF ds = {} THEN -1 ELSE (CHOOSE p \in ds : \A q \in ds : p <= q) - 1

(* std::string::rfind('.'): 0-based position of the last '.', -1 for npos. *)
RFindDot(s) ==
  LET ds == {p \in 1..Len(s) : s[p] = "."}
  IN IF ds = {} THEN -1 ELSE (CHOOSE p \in ds : \A q \in ds : q <= p) - 1

(* ------------------------- path normalization --------------------------- *)
Cwd == <<"/", "r">>

RECURSIVE CollapseSlashes(_)
CollapseSlashes(path) ==
  IF Len(path) < 2 THEN path
  ELSE IF path[1] = "/" /\ path[2] = "/" THEN CollapseSlashes(Tail(path))
  ELSE <<path[1]>> \o CollapseSlashes(Tail(path))

NormalizePath(path) ==
  CollapseSlashes(IF path # <<>> /\ path[1] = "/" THEN path
                  ELSE Cwd \o <<"/">> \o path)

NormalizePathWithTestOptOut(path) ==
  IF g_disable_normalize_path_for_test THEN <<"&">> \o path
  ELSE NormalizePath(path)

(* ---------------------------- flag tables ------------------------------- *)
(* Mutation: -MF missing from the table. *)
kBlacklistMulti_noMF ==
  << <<"-", "M", "T">>, <<"-", "M", "Q">>, <<"-", "o">>,
     <<"-", "X", "c", "l", "a", "n", "g">> >>

kBlacklistMulti ==
  << <<"-", "M", "F">>, <<"-", "M", "T">>, <<"-", "M", "Q">>, <<"-", "o">>,
     <<"-", "-", "s", "e", "r", "i", "a", "l", "i", "z", "e", "-", "d", "i",
       "a", "g", "n", "o", "s", "t", "i", "c", "s">>,
     <<"-", "X", "c", "l", "a", "n", "g">> >>

kBlacklist ==
  << <<"-", "c">>, <<"-", "M", "P">>, <<"-", "M", "D">>, <<"-", "M", "M", "D">>,
     <<"-", "-", "f", "c", "o", "l", "o", "r", "-", "d", "i", "a", "g", "n",
       "o", "s", "t", "i", "c", "s">> >>

(* Mutation: -include stands before -include-pch. *)
kPathArgs_includeFirst ==
  << <<"-", "I">>, <<"-", "i", "q", "u", "o", "t", "e">>,
     <<"-", "i", "s", "y", "s", "t", "e", "m">>,
     <<"-", "-", "s", "y", "s", "r", "o", "o", "t", "=">>,
     <<"-", "i", "s", "y", "s", "r", "o", "o", "t">>,
     <<"-", "g", "c", "c", "-", "t", "o", "o", "l", "c", "h", "a", "i", "n">>,
     <<"-", "i", "n", "c", "l", "u", "d", "e">>,
     <<"-", "i", "n", "c", "l", "u", "d", "e", "-", "p", "c", "h">>,
     <<"-", "i", "f", "r", "a", "m", "e", "w", "o", "r", "k">>,
     <<"-", "F">>, <<"-", "i", "m", "a", "c", "r", "o", "s">> >>

kPathArgs ==
  << <<"-", "I">>, <<"-", "i", "q", "u", "o", "t", "e">>,
     <<"-", "i", "s", "y", "s", "t", "e", "m">>,
     <<"-", "-", "s", "y", "s", "r", "o", "o", "t", "=">>,
     <<"-", "i", "s", "y", "s", "r", "o", "o", "t">>,
     <<"-", "g", "c", "c", "-", "t", "o", "o", "l", "c", "h", "a", "i", "n">>,
     <<"-", "i", "n", "c", "l", "u", "d", "e", "-", "p", "c", "h">>,
     <<"-", "i", "f", "r", "a", "m", "e", "w", "o", "r", "k">>,
     <<"-", "F">>, <<"-", "i", "m", "a", "c", "r", "o", "s">>,
     <<"-", "i", "n", "c", "l", "u", "d", "e">> >>

(* Mutation: -iquote is rewritten too. *)
kNormalizePathArgs_iquote ==
  << <<"-", "-", "s", "y", "s", "r", "o", "o", "t", "=">>,
     <<"-", "i", "q", "u", "o", "t", "e">> >>

kNormalizePathArgs == << <<"-", "-", "s", "y", "s", "r", "o", "o", "t", "=">> >>

kQuoteIncludeArgs == << <<"-", "i", "q", "u", "o", "t", "e">> >>
kAngleIncludeArgs == << <<"-", "I">>, <<"-", "i", "s", "y", "s", "t", "e", "m">> >>

ShouldAddToQuoteIncludes(arg) == StartsWithAny(arg, kQuoteIncludeArgs)
ShouldAddToAngleIncludes(arg) == StartsWithAny(arg, kAngleIncludeArgs)

kWorkingDirectory ==
  <<"-", "w", "o", "r", "k", "i", "n", "g", "-", "d", "i", "r", "e", "c", "t",
    "o", "r", "y">>
kDashX == <<"-", "x">>
kDashStd == <<"-", "s", "t", "d", "=">>
kResourceDir == <<"-", "r", "e", "s", "o", "u", "r", "c", "e", "-", "d", "i", "r">>
kWnoUnknownWarningOption ==
  <<"-", "W", "n", "o", "-", "u", "n", "k", "n", "o", "w", "n", "-", "w", "a",
    "r", "n", "i", "n", "g", "-", "o", "p", "t", "i", "o", "n">>
kFparseAllComments ==
  <<"-", "f", "p", "a", "r", "s", "e", "-", "a", "l", "l", "-", "c", "o", "m",
    "m", "e", "n", "t", "s">>
kDummyCompiler == <<"c", "l", "a", "n", "g", "+", "+">>
kStdGnu11 == <<"-", "s", "t", "d", "=", "g", "n", "u", "1", "1">>
kStdCxx14 == <<"-", "s", "t", "d", "=", "c", "+", "+", "1", "4">>

NoType == <<"nullopt">>
TypeC == <<"c">>
TypeCxx == <<"c", "+", "+">>
TypeObjCxx == <<"o", "b", "j", "e", "c", "t", "i", "v", "e", "-", "c", "+", "+">>
TypeObjC == <<"o", "b", "j", "e", "c", "t", "i", "v", "e", "-", "c">>

SourceFileType(path) ==
  IF EndsWith(path, <<".", "c">>) THEN TypeC
  ELSE IF EndsWith(path, <<".", "c", "p", "p">>) \/ EndsWith(path, <<".", "c", "c">>)
    THEN TypeCxx
  ELSE IF EndsWith(path, <<".", "m", "m">>) THEN TypeObjCxx
  ELSE IF EndsWith(path, <<".", "m">>) THEN TypeObjC
  ELSE NoType

(* ------------------------------ classifier ------------------------------ *)
(* Mutation: the working directory is not prepended to relative paths. *)
cleanup_maybe_relative_path_nodir(e, path) ==
  NormalizePathWithTestOptOut(path)

cleanup_maybe_relative_path(e, path) ==
  IF path[1] = "/" \/ e.directory = <<>>
    THEN NormalizePathWithTestOptOut(path)
    ELSE NormalizePathWithTestOptOut(e.directory \o <<"/">> \o path)

(* The part of the while condition about the shape of the token: no '.', or *)
(* the last '.' more than 4 bytes from the end, or a digit after it.        *)
LooksLikeCommand(arg) ==
  LET dot == RFindDot(arg)
  IN \/ dot = -1
     \/ dot + 4 < Len(arg)
     \/ CharAt(arg, dot + 1) \in Digits

SkipsArg(arg, filename) ==
  /\ CharAt(arg, 0) # "-"
  /\ NormalizePathWithTestOptOut(arg) # filename
  /\ LooksLikeCommand(arg)

(* The while loop of lines 118-129; i is the 0-based index it stops at. *)
RECURSIVE StripCompilerCommand(_, _, _)
StripCompilerCommand(args, filename, i) ==
  IF i < Len(args) /\ SkipsArg(args[i + 1], filename)
    THEN StripCompilerCommand(args, filename, i + 1)
    ELSE i

(* Mutation: the first raw token rather than the one before the stop. *)
CompilerArg_first(args, i) == IF i > 0 THEN args[1] ELSE kDummyCompiler

CompilerArg(args, i) == IF i > 0 THEN args[i] ELSE kDummyCompiler

WorkingDirectoryArgs(e) ==
  IF ~AnyStartsWith(e.args, kWorkingDirectory)
    THEN <<kWorkingDirectory, e.directory>>
    ELSE <<>>

(* Mutation: the C++ default standard for every dialect. *)
DefaultStdArgs_cxx(source_file_type) == <<kStdCxx14>>

DefaultStdArgs(source_file_type) ==
  IF source_file_type = TypeC THEN <<kStdGnu11>>
  ELSE IF source_file_type = TypeCxx THEN <<kStdCxx14>>
  ELSE <<>>

(* Mutation: the default standard is injected only together with -x. *)
LanguageArgs_coupled(e) ==
  LET source_file_type == SourceFileType(e.file)
  IN IF source_file_type = NoType \/ AnyStartsWith(e.args, kDashX) THEN <<>>
     ELSE <<kDashX \o source_file_type>>
          \o (IF ~AnyStartsWith(e.args, kDashStd)
                THEN DefaultStdArgs(source_file_type) ELSE <<>>)

LanguageArgs(e) ==
  LET source_file_type == SourceFileType(e.file)
  IN IF source_file_type = NoType THEN <<>>
     ELSE (IF ~AnyStartsWith(e.args, kDashX)
             THEN <<kDashX \o source_file_type>> ELSE <<>>)
          \o (IF ~AnyStartsWith(e.args, kDashStd)
                THEN DefaultStdArgs(source_file_type) ELSE <<>>)

IsBlacklistedMulti(arg) == StartsWithAny(arg, kBlacklistMulti)
IsBlacklisted(arg) == StartsWithAny(arg, kBlacklist)

(* The for loop over kPathArgs: the position of the flag_type at which it *)
(* breaks, 0 when it runs to the end.                                     *)
RECURSIVE FindPathArg(_, _)
FindPathArg(arg, j) ==
  IF j > Len(kPathArgs) THEN 0
  ELSE IF arg = kPathArgs[j] \/ StartsWith(arg, kPathArgs[j]) THEN j
  ELSE FindPathArg(arg, j + 1)

(* Mutation: the path of the previous switch is taken without the check *)
(* that it is not empty.                                                *)
FinishPath_unchecked(e, i, st) ==
  [st EXCEPT !.next_flag_is_path = FALSE,
             !.add_next_flag_to_quote_dirs = FALSE,
             !.add_next_flag_to_angle_dirs = FALSE,
             !.args = Append(@, e.args[i + 1]),
             !.kept = Append(@, i)]

(* {"-I", "foo"} style: arg is the path of the previous switch. *)
FinishPath(e, i, st) ==
  LET arg == e.args[i + 1]
  IN IF arg = <<>> THEN [st EXCEPT !.aborted = TRUE]
     ELSE LET normalized_arg == cleanup_maybe_relative_path(e, arg)
          IN [st EXCEPT
               !.quote_dirs = IF st.add_next_flag_to_quote_dirs
                                THEN @ \cup {normalized_arg} ELSE @,
               !.angle_dirs = IF st.add_next_flag_to_angle_dirs
                                THEN @ \cup {normalized_arg} ELSE @,
               !.next_flag_is_path = FALSE,
               !.add_next_flag_to_quote_dirs = FALSE,
               !.add_next_flag_to_angle_dirs = FALSE,
               !.args = Append(@, arg),
               !.kept = Append(@, i)]

(* The else branch of lines 195-220 followed by the push_back of line 222. *)
CheckPathArg(e, i, st) ==
  LET arg == e.args[i + 1]
      j == FindPathArg(arg, 1)
  IN IF j = 0
       THEN [st EXCEPT !.args = Append(@, arg), !.kept = Append(@, i)]
     ELSE LET flag_type == kPathArgs[j]
          IN IF arg = flag_type
               THEN [st EXCEPT
                      !.next_flag_is_path = TRUE,
                      !.add_next_flag_to_quote_dirs = ShouldAddToQuoteIncludes(arg),
                      !.add_next_flag_to_angle_dirs = ShouldAddToAngleIncludes(arg),
                      !.args = Append(@, arg),
                      !.kept = Append(@, i)]
             ELSE LET raw_path == SubSeq(arg, Len(flag_type) + 1, Len(arg))
                  IN IF raw_path = <<>> THEN [st EXCEPT !.aborted = TRUE]
                     ELSE LET path == cleanup_maybe_relative_path(e, raw_path)
                              out == IF StartsWithAny(arg, kNormalizePathArgs)
                                       THEN flag_type \o path ELSE arg
                          IN [st EXCEPT
                               !.quote_dirs = IF ShouldAddToQuoteIncludes(flag_type)
                                                THEN @ \cup {path} ELSE @,
                               !.angle_dirs = IF ShouldAddToAngleIncludes(flag_type)
                                                THEN @ \cup {path} ELSE @,
                               !.args = Append(@, out),
                               !.kept = Append(@, i)]

(* The for loop of lines 168-223, from raw index i (0-based). *)
RECURSIVE FilterArgs(_, _, _)
FilterArgs(e, i, st) ==
  IF i >= Len(e.args) \/ st.aborted THEN st
  ELSE LET arg == e.args[i + 1]
       IN IF ~st.next_flag_is_path /\ IsBlacklistedMulti(arg)
            THEN FilterArgs(e, i + 2, st)
          ELSE IF ~st.next_flag_is_path /\ IsBlacklisted(arg)
            THEN FilterArgs(e, i + 1, st)
          ELSE IF st.next_flag_is_path
            THEN FilterArgs(e, i + 1, FinishPath(e, i, st))
          ELSE FilterArgs(e, i + 1, CheckPathArg(e, i, st))

(* Mutation: the blacklist applied to the extra flags too. *)
AppendExtraFlags_filtered(args, extra_flags) ==
  args \o SelectSeq(extra_flags, LAMBDA f : ~IsBlacklisted(f))

AppendExtraFlags(args, extra_flags) == args \o extra_flags

(* Mutation: appended without looking at what is already there. *)
AppendIfAbsent_always(args, name, flag) == Append(args, flag)

AppendIfAbsent(args, name, flag) ==
  IF ~AnyStartsWith(args, name) THEN Append(args, flag) ELSE args

AppendBookkeeping(args, resource_dir) ==
  LET a1 == AppendIfAbsent(args, kResourceDir, kResourceDir \o <<"=">> \o resource_dir)
      a2 == AppendIfAbsent(a1, kWnoUnknownWarningOption, kWnoUnknownWarningOption)
  IN AppendIfAbsent(a2, kFparseAllComments, kFparseAllComments)

(* The whole call: the Entry returned, the accumulator as left behind, and *)
(* where the pieces of args came from (lead, kept).                        *)
GetCompilationEntryFromCompileCommandEntry(cfg, e) ==
  LET filename == NormalizePathWithTestOptOut(e.file)
      i == StripCompilerCommand(e.args, filename, 0)
      head == <<CompilerArg(e.args, i)>> \o WorkingDirectoryArgs(e) \o LanguageArgs(e)
      st == FilterArgs(e, i,
              [args |-> head, kept |-> <<>>,
               quote_dirs |-> cfg.quote_dirs, angle_dirs |-> cfg.angle_dirs,
               next_flag_is_path |-> FALSE,
               add_next_flag_to_quote_dirs |-> FALSE,
               add_next_flag_to_angle_dirs |-> FALSE,
               aborted |-> FALSE])
  IN [result |-> [filename |-> filename,
                  args |-> AppendBookkeeping(
                             AppendExtraFlags(st.args, cfg.extra_flags),
                             cfg.resource_dir),
                  is_inferred |-> FALSE],
      config |-> [cfg EXCEPT !.quote_dirs = st.quote_dirs,
                             !.angle_dirs = st.angle_dirs],
      aborted |-> st.aborted,
      lead |-> Len(head),
      kept |-> st.kept]

(* ----------------------------- state machine ---------------------------- *)
NoEntry == [filename |-> <<>>, args |-> <<>>, is_inferred |-> FALSE]
NoRecord == [directory |-> <<>>, file |-> <<>>, args |-> <<>>]
EmptyIndex == [f \in {} |-> 0]

kResourceDirValue == <<"/", "r", "d">>
kProjectDir == <<"/", "p">>
kTestProjectDir == <<"/", "w", "/", "c", "/", "s", "/">>
kTestResourceDir ==
  <<"/", "w", "/", "r", "e", "s", "o", "u", "r", "c", "e", "_", "d", "i", "r", "/">>

(* The threads that query the Project once it is loaded, and the locals *)
(* of a thread that is in neither of the two reading functions.         *)
Readers == {"r1", "r2"}
IdleReader ==
  [pc |-> "idle", filename |-> <<>>, i |-> 0, best_entry |-> 0,
   best_score |-> 0, result |-> NoEntry, matched |-> {}, actions |-> <<>>]

EmptyFs ==
  [cquery_exists |-> FALSE, cquery_lines |-> <<>>,
   db_loads |-> FALSE, db_records |-> <<>>, files |-> <<>>]

(* State after construction: no call made yet; the accumulator holds the   *)
(* caller's extra flags (Project::Load, lines 404-407); the project on     *)
(* disk is one of FsChoices.                                               *)
InitEnv(Extras, FsChoices) ==
  /\ pc = "ready"
  /\ g_disable_normalize_path_for_test = FALSE
  /\ \E x \in Extras :
       config = [quote_dirs |-> {}, angle_dirs |-> {}, extra_flags |-> x,
                 project_dir |-> kProjectDir, resource_dir |-> kResourceDirValue]
  /\ entry = NoRecord
  /\ result = NoEntry
  /\ aborted = FALSE
  /\ lead = 0
  /\ kept = <<>>
  /\ fs \in FsChoices
  /\ entries = <<>>
  /\ absolute_path_to_entry_index_ = EmptyIndex
  /\ quote_include_directories = <<>>
  /\ angle_include_directories = <<>>
  /\ query = <<>>
  /\ readers = [r \in Readers |-> IdleReader]
  /\ calls = {}

InitWith(Extras) == InitEnv(Extras, {EmptyFs})

(* A loader builds one CompileCommandsEntry and is about to classify it *)
(* (lines 270-275, 326-344).                                            *)
BuildEntry(Tokens, Files, Dirs) ==
  /\ pc = "ready"
  /\ \E a \in SeqsUpTo(Tokens, MaxArgs), f \in Files, d \in Dirs :
       entry' = [directory |-> d, file |-> f, args |-> a]
  /\ pc' = "called"
  /\ UNCHANGED <<g_disable_normalize_path_for_test, config, result, aborted,
                 lead, kept, calls>>
  /\ UNCHANGED projectVars

(* The test helper CheckFlags up to its call of the classifier (476-488). *)
CheckFlags(Tokens, Files, Dirs) ==
  /\ pc = "ready"
  /\ g_disable_normalize_path_for_test' = TRUE
  /\ config' = [quote_dirs |-> {}, angle_dirs |-> {}, extra_flags |-> <<>>,
                project_dir |-> kTestProjectDir,
                resource_dir |-> kTestResourceDir]
  /\ \E a \in SeqsUpTo(Tokens, MaxArgs), f \in Files, d \in Dirs :
       entry' = [directory |-> d, file |-> f, args |-> a]
  /\ pc' = "called"
  /\ UNCHANGED <<result, aborted, lead, kept, calls>>
  /\ UNCHANGED projectVars

(* The calls so far with the call of e under accumulator cfg added, when *)
(* it returns: what went in and what came out.                           *)
Recorded(cfg, e, r) ==
  IF r.aborted THEN calls
  ELSE calls \cup {[config |-> cfg, entry |-> e, result |-> r.result,
                    config_out |-> r.config]}

(* The call GetCompilationEntryFromCompileCommandEntry(&config, entry). *)
Classify ==
  /\ pc = "called"
  /\ LET r == GetCompilationEntryFromCompileCommandEntry(config, entry)
     IN /\ aborted' = r.aborted
        /\ result' = IF r.aborted THEN result ELSE r.result
        /\ config' = r.config
        /\ lead' = r.lead
        /\ kept' = r.kept
        /\ calls' = Recorded(config, entry, r)
  /\ pc' = "done"
  /\ UNCHANGED <<g_disable_normalize_path_for_test, entry>>
  /\ UNCHANGED projectVars

Returned == pc = "done" /\ ~aborted

(* ------------------------------- loading -------------------------------- *)
Whitespace == {" ", "\t"}

RECURSIVE TrimLeft(_)
TrimLeft(line) ==
  IF line # <<>> /\ line[1] \in Whitespace THEN TrimLeft(Tail(line)) ELSE line

RECURSIVE TrimRight(_)
TrimRight(line) ==
  IF line # <<>> /\ line[Len(line)] \in Whitespace
    THEN TrimRight(SubSeq(line, 1, Len(line) - 1))
    ELSE line

TrimInPlace(line) == TrimRight(TrimLeft(line))

(* ReadLinesWithEnding(project_dir + "/.cquery"): no lines when missing. *)
ReadLinesWithEnding == IF fs.cquery_exists THEN fs.cquery_lines ELSE <<>>

EnsureEndsInSlash(path) ==
  IF path = <<>> \/ path[Len(path)] # "/" THEN path \o <<"/">> ELSE path

(* The classifier applied to the records in order, the accumulator passed *)
(* from one call to the next.                                             *)
RECURSIVE ClassifyAll(_, _, _)
ClassifyAll(cfg, records, acc) ==
  IF records = <<>> THEN [entries |-> acc, config |-> cfg, aborted |-> FALSE]
  ELSE LET r == GetCompilationEntryFromCompileCommandEntry(cfg, Head(records))
       IN IF r.aborted
            THEN [entries |-> acc, config |-> r.config, aborted |-> TRUE]
            ELSE ClassifyAll(r.config, Tail(records), Append(acc, r.result))

(* Mutation: the lines are taken as read, without trimming. *)
CqueryArgs_untrimmed ==
  SelectSeq(ReadLinesWithEnding,
            LAMBDA line : ~(line = <<>> \/ StartsWith(line, <<"#">>)))

CqueryArgs ==
  LET trimmed == [n \in 1..Len(ReadLinesWithEnding) |->
                    TrimInPlace(ReadLinesWithEnding[n])]
  IN SelectSeq(trimmed, LAMBDA line : ~(line = <<>> \/ StartsWith(line, <<"#">>)))

LoadFromDirectoryListing(cfg) ==
  LET args == CqueryArgs
      sources == SelectSeq(fs.files, LAMBDA file : SourceFileType(file) # NoType)
      records == [n \in 1..Len(sources) |->
                    [directory |-> cfg.project_dir, file |-> sources[n],
                     args |-> Append(args, sources[n])]]
  IN ClassifyAll(cfg, records, <<>>)

AbsoluteFilename(directory, relative_filename) ==
  IF relative_filename # <<>> /\ relative_filename[1] = "/"
    THEN relative_filename
    ELSE directory \o <<"/">> \o relative_filename

(* Mutation: a database that loads is used even when .cquery exists. *)
LoadCompilationEntriesFromDirectory_dbfirst(cfg) ==
  IF ~fs.db_loads THEN LoadFromDirectoryListing(cfg)
  ELSE LET records ==
             [n \in 1..Len(fs.db_records) |->
                [directory |-> fs.db_records[n].directory,
                 file |-> NormalizePathWithTestOptOut(
                            AbsoluteFilename(fs.db_records[n].directory,
                                             fs.db_records[n].file)),
                 args |-> fs.db_records[n].args]]
       IN ClassifyAll(cfg, records, <<>>)

LoadCompilationEntriesFromDirectory(cfg) ==
  IF fs.cquery_exists THEN LoadFromDirectoryListing(cfg)
  ELSE IF ~fs.db_loads THEN LoadFromDirectoryListing(cfg)
  ELSE LET records ==
             [n \in 1..Len(fs.db_records) |->
                [directory |-> fs.db_records[n].directory,
                 file |-> NormalizePathWithTestOptOut(
                            AbsoluteFilename(fs.db_records[n].directory,
                                             fs.db_records[n].file)),
                 args |-> fs.db_records[n].args]]
       IN ClassifyAll(cfg, records, <<>>)

(* Mutation: a filename already in the map keeps its first position. *)
RECURSIVE SetupEntryIndex_first(_, _, _)
SetupEntryIndex_first(es, i, index) ==
  IF i >= Len(es) THEN index
  ELSE SetupEntryIndex_first(es, i + 1,
         [f \in DOMAIN index \cup {es[i + 1].filename} |->
            IF f \in DOMAIN index THEN index[f] ELSE i])

(* The loop of lines 427-428: positions are 0-based. *)
RECURSIVE SetupEntryIndex(_, _, _)
SetupEntryIndex(es, i, index) ==
  IF i >= Len(es) THEN index
  ELSE SetupEntryIndex(es, i + 1,
         [f \in DOMAIN index \cup {es[i + 1].filename} |->
            IF f = es[i + 1].filename THEN i ELSE index[f]])

(* The orders in which an unordered_set can be copied into a vector. *)
Orderings(S) ==
  {seq \in [1..Cardinality(S) -> S] :
     \A i, j \in 1..Cardinality(S) : i # j => seq[i] # seq[j]}

(* Project::Load with the extra flags, root and resource directory of *)
(* config.                                                            *)
Load ==
  /\ pc = "ready"
  /\ LET r == LoadCompilationEntriesFromDirectory(
                [config EXCEPT !.quote_dirs = {}, !.angle_dirs = {}])
     IN /\ aborted' = r.aborted
        /\ config' = r.config
        /\ IF r.aborted
             THEN /\ pc' = "aborted"
                  /\ UNCHANGED <<entries, absolute_path_to_entry_index_,
                                 quote_include_directories,
                                 angle_include_directories>>
             ELSE /\ pc' = "loaded"
                  /\ entries' = r.entries
                  /\ \E order \in Orderings(r.config.quote_dirs) :
                       quote_include_directories' =
                         [n \in 1..Len(order) |-> EnsureEndsInSlash(order[n])]
                  /\ \E order \in Orderings(r.config.angle_dirs) :
                       angle_include_directories' =
                         [n \in 1..Len(order) |-> EnsureEndsInSlash(order[n])]
                  /\ absolute_path_to_entry_index_' =
                       SetupEntryIndex(r.entries, 0, absolute_path_to_entry_index_)
  /\ UNCHANGED <<g_disable_normalize_path_for_test, entry, result, lead, kept,
                 fs, query, readers, calls>>

(* ------------------------------ inference ------------------------------- *)
kMatchPrefixWeight == 100
kMismatchDirectoryWeight == 100
kMatchPostfixWeight == 1
IntMin == -2147483647 - 1

RECURSIVE MatchingPrefix(_, _, _)
MatchingPrefix(a, b, i) ==
  IF i < Len(a) /\ i < Len(b) /\ a[i + 1] = b[i + 1]
    THEN MatchingPrefix(a, b, i + 1)
    ELSE i

(* Mutation: the separators of the common prefix are counted too. *)
SlashesFrom_all(str, i) == Cardinality({j \in 0..(Len(str) - 1) : str[j + 1] = "/"})

SlashesFrom(str, i) == Cardinality({j \in i..(Len(str) - 1) : str[j + 1] = "/"})

(* Mutation: the common ending is not counted. *)
MatchingPostfix_none(a, b, offset) == offset - 1

RECURSIVE MatchingPostfix(_, _, _)
MatchingPostfix(a, b, offset) ==
  IF /\ offset <= Len(a)
     /\ offset <= Len(b)
     /\ a[Len(a) - offset + 1] = b[Len(b) - offset + 1]
    THEN MatchingPostfix(a, b, offset + 1)
    ELSE offset - 1

ComputeGuessScore(a, b) ==
  LET i == MatchingPrefix(a, b, 0)
  IN kMatchPrefixWeight * i
     - kMismatchDirectoryWeight * SlashesFrom(a, i)
     - kMismatchDirectoryWeight * SlashesFrom(b, i)
     + kMatchPostfixWeight * MatchingPostfix(a, b, 1)

(* Mutation: an equal score replaces the current best too. *)
ScoreBeats_orEqual(score, best_score) == score >= best_score

ScoreBeats(score, best_score) == score > best_score

(* The loop of lines 441-447 from entry n on; best_entry is a position in *)
(* entries, 0 for nullptr.                                                *)
RECURSIVE BestEntry(_, _, _, _)
BestEntry(filename, n, best_entry, best_score) ==
  IF n > Len(entries) THEN best_entry
  ELSE LET score == ComputeGuessScore(filename, entries[n].filename)
       IN IF ScoreBeats(score, best_score)
            THEN BestEntry(filename, n + 1, n, score)
            ELSE BestEntry(filename, n + 1, best_entry, best_score)

(* Mutation: a miss without a best entry hands back nothing. *)
FindCompilationEntryForFile_noanswer(filename) ==
  IF filename \in DOMAIN absolute_path_to_entry_index_
    THEN entries[absolute_path_to_entry_index_[filename] + 1]
    ELSE LET best_entry == BestEntry(filename, 1, 0, IntMin)
         IN IF best_entry = 0 THEN NoEntry
            ELSE [filename |-> filename, args |-> entries[best_entry].args,
                  is_inferred |-> TRUE]

FindCompilationEntryForFile(filename) ==
  IF filename \in DOMAIN absolute_path_to_entry_index_
    THEN entries[absolute_path_to_entry_index_[filename] + 1]
    ELSE LET best_entry == BestEntry(filename, 1, 0, IntMin)
         IN [filename |-> filename,
             args |-> IF best_entry # 0 THEN entries[best_entry].args ELSE <<>>,
             is_inferred |-> TRUE]

Find(Queries) ==
  /\ pc \in {"loaded", "found"}
  /\ \E filename \in Queries :
       /\ query' = filename
       /\ result' = FindCompilationEntryForFile(filename)
  /\ pc' = "found"
  /\ UNCHANGED <<g_disable_normalize_path_for_test, config, entry, aborted,
                 lead, kept, fs, entries, absolute_path_to_entry_index_,
                 quote_include_directories, angle_include_directories,
                 readers, calls>>

(* ------------------- wrapper scan and compiler executable --------------- *)
tok_cc == <<"c", "c">>
tok_goma == <<"g", "o", "m", "a">>
tok_a_c == <<"a", ".", "c">>
tok_O == <<"-", "O">>
tok_mk == <<"m", "k">>
tok_clang40 == <<"c", "l", "a", "n", "g", "-", "4", ".", "0">>
file_f_cc == <<"f", ".", "c", "c">>
dir_d == <<"/", "d">>

ScanTokens == {tok_cc, tok_goma, tok_a_c, tok_O, tok_mk, tok_clang40}
ScanFiles == {file_f_cc, tok_mk}
ScanDirs == {dir_d}
ScanExtras == {<<>>, <<tok_O>>}

InitScan == InitWith(ScanExtras)
NextScan ==
  \/ BuildEntry(ScanTokens, ScanFiles, ScanDirs)
  \/ CheckFlags(ScanTokens, ScanFiles, ScanDirs)
  \/ Classify
SpecScan == InitScan /\ [][NextScan]_vars

(* Index of the raw token at which the leading scan stops: the first token *)
(* that is not skipped, the number of tokens when all are skipped.         *)
ScanStop(args, filename) ==
  LET stops == {i \in 0..(Len(args) - 1) : ~SkipsArg(args[i + 1], filename)}
  IN IF stops = {} THEN Len(args)
     ELSE CHOOSE i \in stops : \A j \in stops : i <= j

ExampleArgs(c, d, resource_dir) ==
  <<c, kWorkingDirectory, d, kDashX \o TypeCxx, kStdCxx14,
    kResourceDir \o <<"=">> \o resource_dir,
    kWnoUnknownWarningOption, kFparseAllComments>>

(* C3: with k the index at which the wrapper scan stops, k > 0 makes       *)
(* args[0] the raw token k-1 and carries none of the raw tokens 0..k-2;    *)
(* k = 0 makes args[0] the placeholder clang++; raw [w, c] of two skipped  *)
(* tokens for a .cc file without extra flags gives exactly                 *)
(* [c, -working-directory, d, -xc++, -std=c++14, -resource-dir=..,         *)
(*  -Wno-unknown-warning-option, -fparse-all-comments].                    *)
C3_CompilerIsTokenBeforeStop ==
  Returned =>
    LET k == ScanStop(entry.args, result.filename)
    IN /\ k > 0 => /\ result.args[1] = entry.args[k]
                   /\ \A n \in 1..Len(kept) : kept[n] >= k
       /\ k = 0 => result.args[1] = kDummyCompiler
       /\ (/\ Len(entry.args) = 2
           /\ k = 2
           /\ EndsWith(entry.file, <<".", "c", "c">>)
           /\ config.extra_flags = <<>>)
          => result.args = ExampleArgs(entry.args[2], entry.directory,
                                       config.resource_dir)

C3_Witness ==
  /\ Returned
  /\ entry.args = <<tok_goma, tok_cc>>
  /\ entry.file = file_f_cc
  /\ result.args = ExampleArgs(tok_cc, dir_d, kTestResourceDir)

(* --------------------------- blacklist filtering ------------------------ *)
tok_MF == <<"-", "M", "F">>
tok_x_d == <<"x", ".", "d">>
tok_c == <<"-", "c">>
tok_o == <<"-", "o">>
tok_I == <<"-", "I">>
tok_DX == <<"-", "D", "X">>
tok_cx == <<"-", "c", "x">>
tok_oa == <<"-", "o", "a">>

FilterTokens == {tok_cc, tok_MF, tok_x_d, tok_c, tok_o, tok_I, tok_DX, tok_cx, tok_oa}
FilterFiles == {file_f_cc}
FilterDirs == {dir_d}
FilterExtras == {<<>>, <<tok_c>>}

InitFilter == InitWith(FilterExtras)
NextFilter ==
  \/ BuildEntry(FilterTokens, FilterFiles, FilterDirs)
  \/ CheckFlags(FilterTokens, FilterFiles, FilterDirs)
  \/ Classify
SpecFilter == InitFilter /\ [][NextFilter]_vars

InList(arg, list) == \E j \in 1..Len(list) : arg = list[j]

(* The flag names as the claims list them. *)
MultiTokenBlacklistedFlags ==
  {<<"-", "M", "F">>, <<"-", "M", "T">>, <<"-", "M", "Q">>, <<"-", "o">>,
   <<"-", "-", "s", "e", "r", "i", "a", "l", "i", "z", "e", "-", "d", "i",
     "a", "g", "n", "o", "s", "t", "i", "c", "s">>,
   <<"-", "X", "c", "l", "a", "n", "g">>}
SingleTokenBlacklistedFlags ==
  {<<"-", "c">>, <<"-", "M", "P">>, <<"-", "M", "D">>, <<"-", "M", "M", "D">>,
   <<"-", "-", "f", "c", "o", "l", "o", "r", "-", "d", "i", "a", "g", "n",
     "o", "s", "t", "i", "c", "s">>}
PathBearingFlags ==
  {<<"-", "I">>, <<"-", "i", "q", "u", "o", "t", "e">>,
   <<"-", "i", "s", "y", "s", "t", "e", "m">>,
   <<"-", "-", "s", "y", "s", "r", "o", "o", "t", "=">>,
   <<"-", "i", "s", "y", "s", "r", "o", "o", "t">>,
   <<"-", "g", "c", "c", "-", "t", "o", "o", "l", "c", "h", "a", "i", "n">>,
   <<"-", "i", "n", "c", "l", "u", "d", "e", "-", "p", "c", "h">>,
   <<"-", "i", "f", "r", "a", "m", "e", "w", "o", "r", "k">>,
   <<"-", "F">>, <<"-", "i", "m", "a", "c", "r", "o", "s">>,
   <<"-", "i", "n", "c", "l", "u", "d", "e">>}
StartsWithSome(arg, names) == \E nm \in names : StartsWith(arg, nm)
Carried(i) == \E n \in 1..Len(kept) : kept[n] = i
RawAt(i) == entry.args[i + 1]
RawIndices == 0..(Len(entry.args) - 1)

(* C4 as stated: without extra flags no raw token that is a blacklisted    *)
(* flag is carried into args, and the raw token right after a multi-token  *)
(* blacklisted flag is not carried either.                                 *)
C4_NoBlacklistedFlagSurvives ==
  (Returned /\ config.extra_flags = <<>>) =>
    \A i \in RawIndices :
      /\ RawAt(i) \in SingleTokenBlacklistedFlags => ~Carried(i)
      /\ RawAt(i) \in MultiTokenBlacklistedFlags => ~Carried(i) /\ ~Carried(i + 1)

(* C4 amended: without extra flags a raw token that is a blacklisted flag  *)
(* and does not directly follow a split path-bearing flag (which takes it  *)
(* as its path value) is not carried into args; if it is a multi-token     *)
(* flag that also does not directly follow a token starting with a         *)
(* multi-token blacklisted name (which consumes it), the raw token right   *)
(* after it is not carried either.                                         *)
C4_BlacklistedFlagDroppedUnlessValue ==
  (Returned /\ config.extra_flags = <<>>) =>
    \A i \in RawIndices :
      LET afterPathFlag == i > 0 /\ RawAt(i - 1) \in PathBearingFlags
          afterMulti == i > 0 /\ StartsWithSome(RawAt(i - 1), MultiTokenBlacklistedFlags)
      IN /\ (RawAt(i) \in SingleTokenBlacklistedFlags /\ ~afterPathFlag) => ~Carried(i)
         /\ (RawAt(i) \in MultiTokenBlacklistedFlags /\ ~afterPathFlag) => ~Carried(i)
         /\ (RawAt(i) \in MultiTokenBlacklistedFlags /\ ~afterPathFlag /\ ~afterMulti)
              => ~Carried(i + 1)

C4_Witness ==
  /\ Returned
  /\ config.extra_flags = <<>>
  /\ entry.args = <<tok_cc, tok_MF, tok_x_d>>
  /\ kept = <<>>
  /\ ~InList(tok_MF, result.args)
  /\ ~InList(tok_x_d, result.args)

(* Start of the part of args pushed by the filter loop. *)
CarriedArg(n) == result.args[lead + n]

(* C5: every raw token at or after the scan stop that is not a blacklisted *)
(* flag, does not follow a multi-token blacklisted flag, is not a          *)
(* path-bearing flag (split or fused) and does not follow a split          *)
(* path-bearing flag is copied to args unchanged, and the carried tokens   *)
(* keep their raw order.                                                   *)
C5_OtherTokensPassThrough ==
  Returned =>
    LET k == ScanStop(entry.args, result.filename)
    IN /\ \A i \in RawIndices :
            (/\ i >= k
             /\ ~RawAt(i) \in SingleTokenBlacklistedFlags
             /\ ~RawAt(i) \in MultiTokenBlacklistedFlags
             /\ ~(i > 0 /\ RawAt(i - 1) \in MultiTokenBlacklistedFlags)
             /\ ~StartsWithSome(RawAt(i), PathBearingFlags)
             /\ ~(i > 0 /\ RawAt(i - 1) \in PathBearingFlags))
            => \E n \in 1..Len(kept) : kept[n] = i /\ CarriedArg(n) = RawAt(i)
       /\ \A n \in 1..(Len(kept) - 1) : kept[n] < kept[n + 1]

(* ------------------------ include-directory flags ----------------------- *)
tok_iquote == <<"-", "i", "q", "u", "o", "t", "e">>
tok_isystem == <<"-", "i", "s", "y", "s", "t", "e", "m">>
path_a == <<"a">>
path_abs_a == <<"/", "a">>
dir_empty == <<>>
dir_d_slash == <<"/", "d", "/">>

IncludeFlags == {tok_I, tok_iquote, tok_isystem}
PathValues == {path_a, path_abs_a}
PathTokens ==
  {tok_cc} \cup IncludeFlags \cup PathValues
    \cup {f \o v : f \in IncludeFlags, v \in PathValues}
PathFiles == {file_f_cc}
PathDirs == {dir_empty, dir_d, dir_d_slash}
PathExtras == {<<>>}

InitPaths == InitWith(PathExtras)
NextPaths ==
  \/ BuildEntry(PathTokens, PathFiles, PathDirs)
  \/ CheckFlags(PathTokens, PathFiles, PathDirs)
  \/ Classify
SpecPaths == InitPaths /\ [][NextPaths]_vars

(* The absolutized form of path value p against working directory d. *)
Absolutized(d, p) ==
  IF p[1] = "/" \/ d = <<>>
    THEN NormalizePathWithTestOptOut(p)
    ELSE NormalizePathWithTestOptOut(d \o <<"/">> \o p)

(* C6: from an empty accumulator, raw [cc, -I, p] and raw [cc, -Ip] both   *)
(* leave exactly the absolutized p in angle_dirs (likewise -isystem) and   *)
(* -iquote leaves it in quote_dirs: normalize(p) when p starts with '/' or *)
(* the directory is empty, normalize(d + "/" + p) otherwise.               *)
C6_SplitAndFusedAddSamePath ==
  Returned =>
    \A f \in IncludeFlags, v \in PathValues :
      (entry.args = <<tok_cc, f, v>> \/ entry.args = <<tok_cc, f \o v>>) =>
        LET expected == {Absolutized(entry.directory, v)}
        IN IF f = tok_iquote
             THEN config.quote_dirs = expected /\ config.angle_dirs = {}
             ELSE config.angle_dirs = expected /\ config.quote_dirs = {}

C6_Witness ==
  /\ Returned
  /\ ~g_disable_normalize_path_for_test
  /\ entry.args = <<tok_cc, tok_I \o path_a>>
  /\ entry.directory = dir_d_slash
  /\ config.angle_dirs = {<<"/", "d", "/", "a">>}

(* ------------------- injected, extra and appended flags ----------------- *)
tok_xc == <<"-", "x", "c">>
tok_std_c99 == <<"-", "s", "t", "d", "=", "c", "9", "9">>
tok_rd_x == <<"-", "r", "e", "s", "o", "u", "r", "c", "e", "-", "d", "i", "r", "=", "x">>
tok_Ie == <<"-", "I", "e">>
tok_wd_w ==
  <<"-", "w", "o", "r", "k", "i", "n", "g", "-", "d", "i", "r", "e", "c", "t",
    "o", "r", "y", "=", "/", "w">>
tok_rd_e ==
  <<"-", "r", "e", "s", "o", "u", "r", "c", "e", "-", "d", "i", "r", "=", "/", "e">>
file_a_c == <<"a", ".", "c">>
file_a_cpp == <<"a", ".", "c", "p", "p">>
file_a_cc == <<"a", ".", "c", "c">>
file_a_mm == <<"a", ".", "m", "m">>
file_a_m == <<"a", ".", "m">>
file_a_h == <<"a", ".", "h">>

InjectTokens ==
  {tok_cc, tok_xc, tok_std_c99, kWorkingDirectory, kFparseAllComments, tok_o,
   tok_rd_x}
InjectFiles == {file_a_c, file_a_cpp, file_a_cc, file_a_mm, file_a_m, file_a_h}
InjectDirs == {dir_d}
InjectExtras ==
  {<<>>, <<tok_Ie, tok_c>>, <<tok_wd_w>>, <<tok_rd_e, kWnoUnknownWarningOption>>}

InitInject == InitWith(InjectExtras)
NextInject ==
  \/ BuildEntry(InjectTokens, InjectFiles, InjectDirs)
  \/ CheckFlags(InjectTokens, InjectFiles, InjectDirs)
  \/ Classify
SpecInject == InitInject /\ [][NextInject]_vars

Contains(args, tok) == \E j \in 1..Len(args) : args[j] = tok
CountStartingWith(args, name) ==
  Cardinality({j \in 1..Len(args) : StartsWith(args[j], name)})

(* The dialect the extension map gives, <<>> for an unrecognized extension. *)
ExtensionDialect(file) ==
  IF EndsWith(file, <<".", "c">>) THEN <<"c">>
  ELSE IF EndsWith(file, <<".", "c", "p", "p">>) \/ EndsWith(file, <<".", "c", "c">>)
    THEN <<"c", "+", "+">>
  ELSE IF EndsWith(file, <<".", "m", "m">>)
    THEN <<"o", "b", "j", "e", "c", "t", "i", "v", "e", "-", "c", "+", "+">>
  ELSE IF EndsWith(file, <<".", "m">>)
    THEN <<"o", "b", "j", "e", "c", "t", "i", "v", "e", "-", "c">>
  ELSE <<>>

NoExplicitLanguage ==
  /\ ExtensionDialect(entry.file) # <<>>
  /\ ~AnyStartsWith(entry.args, <<"-", "x">>)
  /\ ~AnyStartsWith(entry.args, <<"-", "s", "t", "d", "=">>)

LeadArgs == SubSeq(result.args, 1, lead)

(* C7 as stated: a recognized extension without explicit -x and -std= in   *)
(* the raw arguments gets both an injected -x<dialect> and an injected     *)
(* default standard flag.                                                  *)
C7_DialectAndStandardInjected ==
  (Returned /\ NoExplicitLanguage) =>
    /\ Contains(LeadArgs, <<"-", "x">> \o ExtensionDialect(entry.file))
    /\ AnyStartsWith(LeadArgs, <<"-", "s", "t", "d", "=">>)

(* C7 amended: a recognized extension without explicit -x and -std= gets   *)
(* an injected -x<dialect>; the injected standard flag is -std=gnu11 for   *)
(* .c and -std=c++14 for .cpp/.cc, and none is injected for .mm and .m.    *)
C7_DialectInjectedStandardForCAndCxx ==
  (Returned /\ NoExplicitLanguage) =>
    LET dialect == ExtensionDialect(entry.file)
    IN /\ Contains(LeadArgs, <<"-", "x">> \o dialect)
       /\ dialect = <<"c">> =>
            Contains(LeadArgs, <<"-", "s", "t", "d", "=", "g", "n", "u", "1", "1">>)
       /\ dialect = <<"c", "+", "+">> =>
            Contains(LeadArgs, <<"-", "s", "t", "d", "=", "c", "+", "+", "1", "4">>)
       /\ dialect \notin {<<"c">>, <<"c", "+", "+">>} =>
            ~AnyStartsWith(LeadArgs, <<"-", "s", "t", "d", "=">>)

C7_Witness ==
  /\ Returned
  /\ entry.file = file_a_m
  /\ entry.args = <<tok_cc>>
  /\ LeadArgs = <<tok_cc, kWorkingDirectory, dir_d,
              <<"-", "x", "o", "b", "j", "e", "c", "t", "i", "v", "e", "-", "c">> >>

(* C8: args hold exactly one token starting with -working-directory, and   *)
(* when no raw token starts with it the pair [-working-directory, dir]     *)
(* comes right after the compiler executable.                              *)
C8_WorkingDirectoryExactlyOnce ==
  Returned =>
    /\ CountStartingWith(result.args, kWorkingDirectory) = 1
    /\ ~AnyStartsWith(entry.args, kWorkingDirectory) =>
         /\ Len(result.args) >= 3
         /\ result.args[2] = kWorkingDirectory
         /\ result.args[3] = entry.directory

Built == SubSeq(result.args, 1, lead + Len(kept) + Len(config.extra_flags))

ExpectedAppended(built, resource_dir) ==
  LET rd == IF AnyStartsWith(built, kResourceDir) THEN <<>>
            ELSE << kResourceDir \o <<"=">> \o resource_dir >>
      wn == IF AnyStartsWith(built \o rd, kWnoUnknownWarningOption) THEN <<>>
            ELSE <<kWnoUnknownWarningOption>>
      fp == IF AnyStartsWith(built \o rd \o wn, kFparseAllComments) THEN <<>>
            ELSE <<kFparseAllComments>>
  IN rd \o wn \o fp

(* C9: args hold a token starting with each of -resource-dir,              *)
(* -Wno-unknown-warning-option and -fparse-all-comments; after the carried *)
(* tokens and the extra flags come, in this order, exactly those of        *)
(* -resource-dir=<resource_dir>, -Wno-unknown-warning-option and           *)
(* -fparse-all-comments whose name no token built so far starts with.      *)
C9_BookkeepingAppendedIfAbsent ==
  Returned =>
    /\ AnyStartsWith(result.args, kResourceDir)
    /\ AnyStartsWith(result.args, kWnoUnknownWarningOption)
    /\ AnyStartsWith(result.args, kFparseAllComments)
    /\ result.args = Built \o ExpectedAppended(Built, config.resource_dir)

C9_Witness ==
  /\ Returned
  /\ entry.args = <<tok_cc, kFparseAllComments>>
  /\ config.extra_flags = <<tok_rd_e, kWnoUnknownWarningOption>>
  /\ result.args = Built
  /\ CountStartingWith(result.args, kResourceDir) = 1

(* C10: the extra flags stand in args as one block in their order, right   *)
(* after the carried raw tokens, followed only by appended bookkeeping     *)
(* flags; the call leaves extra_flags unchanged and adds to quote_dirs and *)
(* angle_dirs exactly what it adds when there are no extra flags.          *)
C10_ExtraFlagsVerbatim ==
  [][(pc = "called" /\ pc' = "done" /\ ~aborted') =>
       LET from == lead' + Len(kept')
           bare == GetCompilationEntryFromCompileCommandEntry(
                     [config EXCEPT !.extra_flags = <<>>], entry)
       IN /\ config'.extra_flags = config.extra_flags
          /\ SubSeq(result'.args, from + 1, from + Len(config.extra_flags))
               = config.extra_flags
          /\ \A j \in (from + Len(config.extra_flags) + 1)..Len(result'.args) :
               result'.args[j] \in
                 {kResourceDir \o <<"=">> \o config.resource_dir,
                  kWnoUnknownWarningOption, kFparseAllComments}
          /\ config'.quote_dirs = bare.config.quote_dirs
          /\ config'.angle_dirs = bare.config.angle_dirs
          /\ SubSeq(result'.args, 1, from) = SubSeq(bare.result.args, 1, from)
    ]_vars

C10_Witness ==
  /\ Returned
  /\ config.extra_flags = <<tok_Ie, tok_c>>
  /\ entry.args = <<tok_cc, tok_o, tok_xc>>
  /\ kept = <<>>
  /\ SubSeq(result.args, lead + 1, lead + 2) = <<tok_Ie, tok_c>>
  /\ config.angle_dirs = {}

(* --------------------------- project index ------------------------------ *)
tok_D1 == <<"-", "D", "1">>
tok_D2 == <<"-", "D", "2">>
dir_a == <<"/", "a">>
file_x_rel == <<"x", ".", "c", "c">>
file_a_x == <<"/", "a", "/", "x", ".", "c", "c">>
file_a_y == <<"/", "a", "/", "y", ".", "c", "c">>
file_a_b_x == <<"/", "a", "/", "b", "/", "x", ".", "c", "c">>
file_a_z == <<"/", "a", "/", "z", ".", "c", "c">>
file_a_b_z == <<"/", "a", "/", "b", "/", "z", ".", "c", "c">>
file_c_x == <<"/", "c", "/", "x", ".", "c", "c">>
file_p_m == <<"/", "p", "/", "m", ".", "c", "c">>
file_p_txt == <<"/", "p", "/", "r", ".", "t", "x", "t">>
file_p_s_n == <<"/", "p", "/", "s", "/", "n", ".", "c">>
line_comment == <<"#", " ", "c">>
line_DX == <<" ", "-", "D", "X", " ">>

DbRecords ==
  {[directory |-> dir_a, file |-> f, args |-> a] :
     f \in {file_x_rel, file_a_x, file_a_y, file_a_b_x},
     a \in {<<tok_cc, tok_D1>>, <<tok_cc, tok_Ie, tok_D2>>}}

ProjectFs ==
  {[cquery_exists |-> FALSE, cquery_lines |-> <<>>, db_loads |-> TRUE,
    db_records |-> recs, files |-> <<>>] : recs \in SeqsUpTo(DbRecords, MaxEntries)}
  \cup
  {[cquery_exists |-> m, cquery_lines |-> <<line_comment, <<>>, line_DX>>,
    db_loads |-> d, db_records |-> <<[directory |-> dir_a, file |-> file_a_x,
                                      args |-> <<tok_cc, tok_D1>>]>>,
    files |-> fl] :
     m \in BOOLEAN, d \in BOOLEAN,
     fl \in {<<>>, <<file_p_m, file_p_txt, file_p_s_n>>}}

ProjectQueries == {file_a_x, file_a_z, file_a_b_z, file_c_x, file_p_m}

InitProject == InitEnv({<<>>}, ProjectFs)
NextProject == Load \/ Find(ProjectQueries)
SpecProject == InitProject /\ [][NextProject]_vars

EntryPositions == 1..Len(entries)
Score(n) == ComputeGuessScore(query, entries[n].filename)

(* C1: a lookup that misses the map of a non-empty index returns an entry  *)
(* marked inferred, named as the query, with the args of the entry of      *)
(* maximum guess score, the earliest in index order among those.           *)
C1_InferredFromFirstBestScore ==
  (/\ pc = "found"
   /\ query \notin DOMAIN absolute_path_to_entry_index_
   /\ entries # <<>>)
  => /\ result.is_inferred
     /\ result.filename = query
     /\ \E w \in EntryPositions :
          /\ \A n \in EntryPositions : Score(n) <= Score(w)
          /\ \A n \in 1..(w - 1) : Score(n) < Score(w)
          /\ result.args = entries[w].args

C1_Witness ==
  /\ pc = "found"
  /\ query = file_a_z
  /\ Len(entries) = 3
  /\ entries[1].filename = file_a_b_x
  /\ entries[2].filename = file_a_x
  /\ entries[3].filename = file_a_y
  /\ entries[2].args # entries[3].args
  /\ Score(2) = Score(3)
  /\ result.is_inferred
  /\ result.args = entries[2].args

DbMode == ~fs.cquery_exists /\ fs.db_loads

LastPosition(filename) ==
  CHOOSE n \in EntryPositions :
    /\ entries[n].filename = filename
    /\ \A m \in EntryPositions : entries[m].filename = filename => m <= n

(* C2: after Load from the database, entries holds one Entry per raw       *)
(* record in record order, records of equal normalized filename included;  *)
(* the map holds exactly the filenames of entries, each sent to the        *)
(* position of the last entry of that name; a lookup of a name in the map  *)
(* returns that last entry, not marked inferred.                           *)
C2_IndexMapsToLastEntry ==
  pc \in {"loaded", "found"} =>
    /\ DbMode =>
         /\ Len(entries) = Len(fs.db_records)
         /\ \A n \in EntryPositions :
              /\ entries[n].filename =
                   NormalizePath(IF fs.db_records[n].file[1] = "/"
                                   THEN fs.db_records[n].file
                                   ELSE fs.db_records[n].directory \o <<"/">>
                                          \o fs.db_records[n].file)
              /\ \A tok \in {tok_D1, tok_D2} :
                   Contains(entries[n].args, tok)
                     <=> Contains(fs.db_records[n].args, tok)
    /\ DOMAIN absolute_path_to_entry_index_ =
         {entries[n].filename : n \in EntryPositions}
    /\ \A f \in DOMAIN absolute_path_to_entry_index_ :
         absolute_path_to_entry_index_[f] = LastPosition(f) - 1
    /\ (pc = "found" /\ query \in DOMAIN absolute_path_to_entry_index_) =>
         /\ result = entries[LastPosition(query)]
         /\ ~result.is_inferred

C2_Witness ==
  /\ pc = "found"
  /\ query = file_a_x
  /\ Len(entries) = 3
  /\ entries[1].filename = file_a_x
  /\ entries[2].filename = file_a_x
  /\ entries[3].filename = file_a_y
  /\ entries[1].args # entries[2].args
  /\ absolute_path_to_entry_index_[file_a_x] = 1
  /\ result = entries[2]

(* ------------------- the classifier on its own output ------------------- *)
(* The classifier called again with the args it returned as the raw        *)
(* argument list: same directory, same file, same accumulator.             *)
Rerun ==
  /\ pc = "done"
  /\ ~aborted
  /\ entry' = [entry EXCEPT !.args = result.args]
  /\ LET r == GetCompilationEntryFromCompileCommandEntry(config, entry')
     IN /\ aborted' = r.aborted
        /\ result' = IF r.aborted THEN result ELSE r.result
        /\ config' = r.config
        /\ lead' = r.lead
        /\ kept' = r.kept
        /\ calls' = Recorded(config, entry', r)
  /\ pc' = "redone"
  /\ UNCHANGED g_disable_normalize_path_for_test
  /\ UNCHANGED projectVars

RerunTokens == {tok_cc, tok_DX, tok_I, path_a, tok_c}
RerunFiles == {file_a_c, file_a_h}
RerunDirs == {dir_d}
RerunExtras == {<<>>, <<tok_DX>>}

InitRerun == InitWith(RerunExtras)
NextRerun ==
  \/ BuildEntry(RerunTokens, RerunFiles, RerunDirs)
  \/ Classify
  \/ Rerun
SpecRerun == InitRerun /\ [][NextRerun]_vars

(* C11: the classifier run on the args of its first run, with the same     *)
(* directory, file and accumulator (extra flags included), returns args    *)
(* equal to those of the first run.                                        *)
C11_Idempotent ==
  [][(pc = "done" /\ pc' = "redone") =>
       /\ ~aborted'
       /\ result'.args = result.args]_vars

(* --------------------------- empty path values -------------------------- *)
tok_empty == <<>>

EmptyTokens == PathBearingFlags \cup {tok_empty, path_a, tok_MF}
EmptyFiles == {file_f_cc}
EmptyDirs == {dir_d}
EmptyExtras == {<<>>}

InitEmpty == InitWith(EmptyExtras)
NextEmpty ==
  \/ BuildEntry(EmptyTokens, EmptyFiles, EmptyDirs)
  \/ Classify
SpecEmpty == InitEmpty /\ [][NextEmpty]_vars

(* What the filter loop takes raw token i for, read off the raw list alone: *)
(* the value of the split path flag before it, the token consumed by the   *)
(* multi-token blacklisted flag before it, a blacklisted flag, a split     *)
(* path flag, or any other token.                                          *)
RECURSIVE TokenRole(_, _, _)
TokenRole(args, stop, i) ==
  LET prev == IF i > stop THEN TokenRole(args, stop, i - 1) ELSE "none"
      arg == args[i + 1]
  IN IF i < stop THEN "wrapper"
     ELSE IF prev = "flag" THEN "value"
     ELSE IF prev = "multi" THEN "consumed"
     ELSE IF StartsWithSome(arg, MultiTokenBlacklistedFlags) THEN "multi"
     ELSE IF StartsWithSome(arg, SingleTokenBlacklistedFlags) THEN "dropped"
     ELSE IF arg \in PathBearingFlags THEN "flag"
     ELSE "other"

EmptyValueIn(args, filename) ==
  LET stop == ScanStop(args, filename)
  IN \E i \in 0..(Len(args) - 2) :
       /\ TokenRole(args, stop, i) = "flag"
       /\ args[i + 2] = <<>>
SplitFlagWithEmptyValue ==
  EmptyValueIn(entry.args, NormalizePathWithTestOptOut(entry.file))

(* C12: a call in which a split path-bearing flag is immediately followed  *)
(* by an empty path value aborts on the assertion and hands back no Entry; *)
(* every other call (each split path flag followed by a non-empty token,   *)
(* or by nothing) completes and returns an Entry.                          *)
C12_EmptyPathValueAborts ==
  pc = "done" =>
    /\ SplitFlagWithEmptyValue => (aborted /\ result = NoEntry)
    /\ ~SplitFlagWithEmptyValue =>
         /\ ~aborted
         /\ result.filename = NormalizePathWithTestOptOut(entry.file)
         /\ result.args # <<>>

C12_Witness ==
  /\ pc = "done"
  /\ entry.args = <<path_a, <<"-", "i", "s", "y", "s", "r", "o", "o", "t">>, tok_empty>>
  /\ aborted
  /\ result = NoEntry

(* ------------------------- lookup in an empty index --------------------- *)
EmptyIndexMiss ==
  /\ pc = "found"
  /\ entries = <<>>
  /\ query \notin DOMAIN absolute_path_to_entry_index_

(* C13 as stated: a lookup that misses an empty index hands no Entry to    *)
(* the caller.                                                             *)
C13_EmptyIndexNoAnswer ==
  EmptyIndexMiss => result = NoEntry

(* C13 amended: a lookup that misses an empty index returns an Entry       *)
(* marked inferred, named as the query, with empty args.                   *)
C13_EmptyIndexFlaglessEntry ==
  EmptyIndexMiss =>
    result = [filename |-> query, args |-> <<>>, is_inferred |-> TRUE]

C13_Witness ==
  /\ EmptyIndexMiss
  /\ DbMode
  /\ query = file_c_x
  /\ result.is_inferred
  /\ result.filename = file_c_x
  /\ result.args = <<>>

(* ---------------------- inference by directory -------------------------- *)
kArgNumbers == <<"1", "2", "3", "4", "5">>

(* The inference tests fill entries directly (p.entries.push_back(e)), the *)
(* n-th entry with args {"arg<n>"}; the lookup map stays empty.            *)
PushEntry(Files) ==
  /\ pc \in {"ready", "loaded"}
  /\ Len(entries) < MaxEntries
  /\ \E f \in Files :
       entries' = Append(entries,
                    [filename |-> f,
                     args |-> << <<"a", "r", "g", kArgNumbers[Len(entries) + 1]>> >>,
                     is_inferred |-> FALSE])
  /\ pc' = "loaded"
  /\ UNCHANGED <<g_disable_normalize_path_for_test, fs,
                 absolute_path_to_entry_index_, quote_include_directories,
                 angle_include_directories, query, readers>>
  /\ UNCHANGED classifierVars

file_c == <<"/", "c", ".", "c">>
file_a_c_c == <<"/", "a", "/", "c", ".", "c">>
file_a_d_c == <<"/", "a", "/", "d", "/", "c", ".", "c">>
file_a_bb_c == <<"/", "a", "/", "b", "b", "/", "c", ".", "c">>
file_a_d_e_c == <<"/", "a", "/", "d", "/", "e", "/", "c", ".", "c">>
file_a_bb == <<"/", "a", "/", "b", "b", ".", "c">>
file_a_d_q == <<"/", "a", "/", "d", "/", "q", ".", "c">>
file_a_d_e_q == <<"/", "a", "/", "d", "/", "e", "/", "q", ".", "c">>

DirFiles == {file_c, file_a_c_c, file_a_d_c, file_a_bb_c, file_a_d_e_c}
DirQueries == {file_a_bb, file_a_d_q, file_a_d_e_q}

InitDir == InitWith({<<>>})
NextDir == PushEntry(DirFiles) \/ Find(DirQueries)
SpecDir == InitDir /\ [][NextDir]_vars

(* The directory of a path: what stands before its last '/'. *)
DirOf(path) ==
  LET slashes == {p \in 1..Len(path) : path[p] = "/"}
  IN IF slashes = {} THEN <<>>
     ELSE SubSeq(path, 1, (CHOOSE p \in slashes : \A q \in slashes : q <= p) - 1)

IsAncestorDir(a, d) == StartsWith(d, a \o <<"/">>)
EntryDir(n) == DirOf(entries[n].filename)
EntriesIn(d) == {n \in EntryPositions : EntryDir(n) = d}
EntriesAbove(d) == {n \in EntryPositions : IsAncestorDir(EntryDir(n), d)}
EntriesBelow(d) == {n \in EntryPositions : IsAncestorDir(d, EntryDir(n))}
InferenceMiss ==
  /\ pc = "found"
  /\ query \notin DOMAIN absolute_path_to_entry_index_
  /\ entries # <<>>

(* C14: with the entries all in the directory D of the query, in ancestors *)
(* or in descendants of D, an inferred answer takes its args from an entry *)
(* directly in D when there is one, and otherwise from an entry in the     *)
(* closest ancestor of D that holds one.                                   *)
C14_DirectoryProximity ==
  LET d == DirOf(query)
      closest == {n \in EntriesAbove(d) :
                    \A m \in EntriesAbove(d) : Len(EntryDir(m)) <= Len(EntryDir(n))}
  IN (/\ InferenceMiss
      /\ EntryPositions = EntriesIn(d) \cup EntriesAbove(d) \cup EntriesBelow(d))
     => /\ EntriesIn(d) # {} =>
             \E n \in EntriesIn(d) : result.args = entries[n].args
        /\ (EntriesIn(d) = {} /\ EntriesAbove(d) # {}) =>
             \E n \in closest : result.args = entries[n].args

(* ------------------------- inference by ending -------------------------- *)
LongLen == 102

file_c_sb == <<"c", "/", "s", "b", ".", "c">>
file_c_su == <<"c", "/", "s", "u", ".", "c">>
file_c_xz == <<"c", "/", "x", "z", ".", "h">>
file_c_a_su == <<"c", "/", "a", "/", "s", "u", ".", "c">>
file_mb == <<"m", "b", ".", "c">>
file_c_mu == <<"c", "/", "m", "u", ".", "c">>
file_c_xb == <<"c", "/", "x", "b", ".", "c">>
file_c_a_f == <<"c", "/", "a", "/", "f", ".", "c">>
file_y == <<"y">>
file_long == [k \in 1..LongLen |-> "y"]
file_x_long == <<"x">> \o file_long

EndingFiles == {file_c_sb, file_c_su, file_c_xz, file_c_a_su, file_y, file_x_long}
EndingQueries == {file_mb, file_c_mu, file_c_xb, file_c_a_f, file_long}

InitEnding == InitWith({<<>>})
NextEnding == PushEntry(EndingFiles) \/ Find(EndingQueries)
SpecEnding == InitEnding /\ [][NextEnding]_vars

MinOf(S) == CHOOSE x \in S : \A y \in S : x <= y
ShorterLen(a, b) == IF Len(a) <= Len(b) THEN Len(a) ELSE Len(b)

(* The number of leading, and of trailing, characters two names share. *)
CommonStart(a, b) ==
  LET diffs == {k \in 1..ShorterLen(a, b) : a[k] # b[k]}
  IN IF diffs = {} THEN ShorterLen(a, b) ELSE MinOf(diffs) - 1
CommonEnding(a, b) ==
  LET diffs == {k \in 1..ShorterLen(a, b) :
                  a[Len(a) - k + 1] # b[Len(b) - k + 1]}
  IN IF diffs = {} THEN ShorterLen(a, b) ELSE MinOf(diffs) - 1

EntryName(n) == entries[n].filename
SameDirectory == \A n \in EntryPositions : EntryDir(n) = EntryDir(1)
LongestEnding ==
  {w \in EntryPositions :
     \A n \in EntryPositions :
       CommonEnding(query, EntryName(n)) <= CommonEnding(query, EntryName(w))}

SlashCount(name, from) ==
  Cardinality({k \in (from + 1)..Len(name) : name[k] = "/"})
PrefixAndDirectoryScore(n) ==
  LET i == CommonStart(query, EntryName(n))
  IN 100 * i - 100 * SlashCount(query, i) - 100 * SlashCount(EntryName(n), i)

(* C16: an inferred answer never takes its args from an entry B when some  *)
(* entry A has a strictly greater prefix-and-directory score against the   *)
(* query, whatever the endings shared.                                     *)
C16_ProximityBeatsSuffix ==
  InferenceMiss =>
    \A a, b \in EntryPositions :
      PrefixAndDirectoryScore(a) > PrefixAndDirectoryScore(b)
        => result.args # entries[b].args

(* -------------------------- include directories ------------------------- *)
path_abs_a_slash == <<"/", "a", "/">>

IncludeArgs ==
  {<<tok_cc, tok_I \o path_abs_a>>, <<tok_cc, tok_I, path_abs_a>>,
   <<tok_cc, tok_I \o path_abs_a_slash>>, <<tok_cc, tok_I \o path_a>>,
   <<tok_cc, tok_iquote \o path_abs_a>>, <<tok_cc, tok_iquote, path_abs_a_slash>>}
IncludeRecords ==
  {[directory |-> dir_d, file |-> file_x_rel, args |-> a] : a \in IncludeArgs}
IncludeFs ==
  {[cquery_exists |-> FALSE, cquery_lines |-> <<>>, db_loads |-> TRUE,
    db_records |-> recs, files |-> <<>>] :
     recs \in SeqsUpTo(IncludeRecords, MaxEntries)}

InitInclude == InitEnv({<<>>}, IncludeFs)
NextInclude == Load
SpecInclude == InitInclude /\ [][NextInclude]_vars

NoDuplicate(seq) == \A i, j \in 1..Len(seq) : i # j => seq[i] # seq[j]
EndsWithSeparator(path) == path # <<>> /\ path[Len(path)] = "/"

line_sp_comment == <<" ", "#">>
line_I == <<"-", "I", "\t">>

ModeRecords ==
  {[directory |-> dir_a, file |-> file_x_rel, args |-> a] :
     a \in {<<tok_cc, tok_D1>>, <<tok_cc, tok_I, tok_empty>>}}
ModeFs ==
  [cquery_exists : BOOLEAN,
   cquery_lines : {<<>>, <<line_comment, <<>>, line_DX>>, <<line_sp_comment, line_I>>},
   db_loads : BOOLEAN,
   db_records : SeqsUpTo(ModeRecords, MaxEntries),
   files : {<<>>, <<file_p_m, file_p_txt, file_p_s_n>>}]

InitModes == InitEnv({<<>>}, ModeFs)
NextModes == Load
SpecModes == InitModes /\ [][NextModes]_vars

(* The files of the listing with a recognized source extension, in order. *)
RecognizedFiles == SelectSeq(fs.files, LAMBDA f : ExtensionDialect(f) # <<>>)

ListingEntries ==
  /\ Len(entries) = Len(RecognizedFiles)
  /\ \A n \in EntryPositions :
       entries[n].filename = NormalizePathWithTestOptOut(RecognizedFiles[n])
DatabaseEntries ==
  /\ Len(entries) = Len(fs.db_records)
  /\ \A n \in EntryPositions :
       /\ entries[n].filename =
            NormalizePathWithTestOptOut(dir_a \o <<"/">> \o fs.db_records[n].file)
       /\ Contains(entries[n].args, tok_D1)

ModeSelected ==
  /\ fs.cquery_exists => ListingEntries
  /\ (~fs.cquery_exists /\ fs.db_loads) => DatabaseEntries
  /\ (~fs.cquery_exists /\ ~fs.db_loads) => ListingEntries
  /\ DOMAIN absolute_path_to_entry_index_ =
       {entries[n].filename : n \in EntryPositions}

(* C18 as stated: with .cquery present the entries come from the directory *)
(* listing even when the database loads, without it from the database when *)
(* it loads and from the directory listing when it does not; in every case *)
(* Load completes with an index and does not abort.                        *)
C18_ModeSelectedLoadCompletes ==
  pc # "ready" => (pc = "loaded" /\ ModeSelected)

DatabaseRecordWithEmptyValue ==
  \E n \in 1..Len(fs.db_records) :
    EmptyValueIn(fs.db_records[n].args,
                 NormalizePathWithTestOptOut(dir_a \o <<"/">> \o fs.db_records[n].file))

(* C18 amended: the same selection of the mode; Load completes with an     *)
(* index in both directory-listing cases and, in the database case, unless *)
(* a record holds a split path flag followed by an empty value, on which   *)
(* Load aborts.                                                            *)
C18_ModeSelectedAbortOnlyOnEmptyValue ==
  pc # "ready" =>
    /\ pc \in {"loaded", "aborted"}
    /\ pc = "aborted" <=>
         (~fs.cquery_exists /\ fs.db_loads /\ DatabaseRecordWithEmptyValue)
    /\ pc = "loaded" => ModeSelected

C18_Witness ==
  /\ pc = "loaded"
  /\ fs.cquery_exists
  /\ fs.db_loads
  /\ Len(fs.db_records) = 2
  /\ DatabaseRecordWithEmptyValue
  /\ Len(entries) = 2
  /\ entries[1].filename = file_p_m
  /\ entries[2].filename = file_p_s_n

(* --------------------------- directory listing -------------------------- *)
MaxOf(S) == CHOOSE x \in S : \A y \in S : y <= x
Trimmed(line) ==
  LET solid == {k \in 1..Len(line) : line[k] \notin {" ", "\t"}}
  IN IF solid = {} THEN <<>> ELSE SubSeq(line, MinOf(solid), MaxOf(solid))

(* The flags the marker file persists: its lines in order, trimmed, blank *)
(* lines and lines starting with '#' left out; none without marker file.  *)
MarkerFlags ==
  LET lines == IF fs.cquery_exists THEN fs.cquery_lines ELSE <<>>
      trimmed == [n \in 1..Len(lines) |-> Trimmed(lines[n])]
  IN SelectSeq(trimmed, LAMBDA l : l # <<>> /\ l[1] # "#")

ListingMode == fs.cquery_exists \/ ~fs.db_loads

(* C19: in directory-listing mode entries holds one Entry per enumerated   *)
(* file with a recognized source extension, in enumeration order, each the *)
(* classification of directory = project root, file = that file and raw    *)
(* args = the marker flags followed by the file's path.                    *)
C19_ListingEntries ==
  (pc = "loaded" /\ ListingMode) =>
    /\ Len(entries) = Len(RecognizedFiles)
    /\ \A n \in EntryPositions :
         entries[n] =
           GetCompilationEntryFromCompileCommandEntry(
             [config EXCEPT !.quote_dirs = {}, !.angle_dirs = {}],
             [directory |-> config.project_dir,
              file |-> RecognizedFiles[n],
              args |-> Append(MarkerFlags, RecognizedFiles[n])]).result

C19_Witness ==
  /\ pc = "loaded"
  /\ fs.cquery_exists
  /\ fs.cquery_lines = <<line_comment, <<>>, line_DX>>
  /\ fs.files = <<file_p_m, file_p_txt, file_p_s_n>>
  /\ Len(entries) = 2
  /\ entries[1].filename = file_p_m
  /\ entries[2].filename = file_p_s_n
  /\ Contains(entries[1].args, tok_DX)
  /\ Contains(entries[1].args, file_p_m)
  /\ Contains(entries[2].args, file_p_s_n)
  /\ ~Contains(entries[2].args, file_p_m)

(* -------------------- concurrent readers of the index ------------------- *)
(* What a reading thread leaves alone: everything but its own locals. *)
readerShared ==
  <<pc, g_disable_normalize_path_for_test, fs, entries,
    absolute_path_to_entry_index_, quote_include_directories,
    angle_include_directories, query>>

Reading(r) == pc = "loaded" /\ readers[r].pc \in {"idle", "find_done", "filter_done"}

(* A thread enters FindCompilationEntryForFile(filename). *)
FindCall(r, Queries) ==
  /\ Reading(r)
  /\ \E filename \in Queries :
       readers' = [readers EXCEPT ![r] =
                     [IdleReader EXCEPT !.pc = "find_lookup",
                                        !.filename = filename]]
  /\ UNCHANGED readerShared
  /\ UNCHANGED classifierVars

(* Lines 433-435 and 439-440: the exact lookup, then the loop set up. *)
FindLookup(r) ==
  /\ pc = "loaded"
  /\ readers[r].pc = "find_lookup"
  /\ readers' = [readers EXCEPT ![r] =
       IF readers[r].filename \in DOMAIN absolute_path_to_entry_index_
         THEN [@ EXCEPT !.pc = "find_done",
                        !.result = entries[absolute_path_to_entry_index_[
                                             readers[r].filename] + 1]]
         ELSE [@ EXCEPT !.pc = "find_loop", !.i = 0, !.best_entry = 0,
                        !.best_score = IntMin]]
  /\ UNCHANGED readerShared
  /\ UNCHANGED classifierVars

(* One iteration of the loop of lines 441-447. *)
FindStep(r) ==
  /\ pc = "loaded"
  /\ readers[r].pc = "find_loop"
  /\ readers[r].i < Len(entries)
  /\ LET score == ComputeGuessScore(readers[r].filename,
                                    entries[readers[r].i + 1].filename)
     IN readers' = [readers EXCEPT ![r] =
          IF ScoreBeats(score, readers[r].best_score)
            THEN [@ EXCEPT !.i = @ + 1, !.best_score = score,
                           !.best_entry = readers[r].i + 1]
            ELSE [@ EXCEPT !.i = @ + 1]]
  /\ UNCHANGED readerShared
  /\ UNCHANGED classifierVars

(* Mutation: the inferred entry is stored in the index before it is *)
(* returned.                                                        *)
FindReturn_cached(r) ==
  /\ pc = "loaded"
  /\ readers[r].pc = "find_loop"
  /\ readers[r].i = Len(entries)
  /\ LET inferred ==
           [filename |-> readers[r].filename,
            args |-> IF readers[r].best_entry # 0
                       THEN entries[readers[r].best_entry].args ELSE <<>>,
            is_inferred |-> TRUE]
     IN /\ readers' = [readers EXCEPT ![r].pc = "find_done",
                                      ![r].result = inferred]
        /\ entries' = Append(entries, inferred)
        /\ absolute_path_to_entry_index_' =
             [f \in DOMAIN absolute_path_to_entry_index_ \cup {inferred.filename} |->
                IF f = inferred.filename THEN Len(entries)
                ELSE absolute_path_to_entry_index_[f]]
  /\ UNCHANGED <<pc, g_disable_normalize_path_for_test, fs,
                 quote_include_directories, angle_include_directories, query>>
  /\ UNCHANGED classifierVars

(* Lines 449-454: the inferred Entry is built and returned. *)
FindReturn(r) ==
  /\ pc = "loaded"
  /\ readers[r].pc = "find_loop"
  /\ readers[r].i = Len(entries)
  /\ readers' = [readers EXCEPT
       ![r].pc = "find_done",
       ![r].result =
         [filename |-> readers[r].filename,
          args |-> IF readers[r].best_entry # 0
                     THEN entries[readers[r].best_entry].args ELSE <<>>,
          is_inferred |-> TRUE]]
  /\ UNCHANGED readerShared
  /\ UNCHANGED classifierVars

(* A thread enters ForAllFilteredFiles; matched stands for the filenames *)
(* its GroupMatch accepts.                                               *)
FilterCall(r, Matchers) ==
  /\ Reading(r)
  /\ \E matched \in Matchers :
       readers' = [readers EXCEPT ![r] =
                     [IdleReader EXCEPT !.pc = "filter_loop",
                                        !.matched = matched]]
  /\ UNCHANGED readerShared
  /\ UNCHANGED classifierVars

(* Mutation: the action is invoked without asking the matcher. *)
FilterStep_unfiltered(r) ==
  /\ pc = "loaded"
  /\ readers[r].pc = "filter_loop"
  /\ readers[r].i < Len(entries)
  /\ readers' = [readers EXCEPT
       ![r].i = @ + 1,
       ![r].actions = Append(@, <<readers[r].i, entries[readers[r].i + 1]>>)]
  /\ UNCHANGED readerShared
  /\ UNCHANGED classifierVars

(* One iteration of the loop of lines 461-472: action(i, entries[i]) on a *)
(* match, recorded as the pair handed to the action.                      *)
FilterStep(r) ==
  /\ pc = "loaded"
  /\ readers[r].pc = "filter_loop"
  /\ readers[r].i < Len(entries)
  /\ LET i == readers[r].i
         e == entries[i + 1]
     IN readers' = [readers EXCEPT ![r] =
          IF e.filename \in readers[r].matched
            THEN [@ EXCEPT !.i = @ + 1, !.actions = Append(@, <<i, e>>)]
            ELSE [@ EXCEPT !.i = @ + 1]]
  /\ UNCHANGED readerShared
  /\ UNCHANGED classifierVars

FilterReturn(r) ==
  /\ pc = "loaded"
  /\ readers[r].pc = "filter_loop"
  /\ readers[r].i = Len(entries)
  /\ readers' = [readers EXCEPT ![r].pc = "filter_done"]
  /\ UNCHANGED readerShared
  /\ UNCHANGED classifierVars

ReaderRecords ==
  {[directory |-> dir_a, file |-> f, args |-> <<tok_cc, tok_D1>>] :
     f \in {file_a_x, file_a_b_x}}
ReaderFs ==
  {[cquery_exists |-> FALSE, cquery_lines |-> <<>>, db_loads |-> TRUE,
    db_records |-> recs, files |-> <<>>] :
     recs \in SeqsUpTo(ReaderRecords, MaxEntries)}
ReaderQueries == {file_a_x, file_a_b_z}
ReaderMatchers == {{file_a_x}, {file_a_x, file_a_b_x}}

InitReaders == InitEnv({<<>>}, ReaderFs)
NextReaders ==
  \/ Load
  \/ \E r \in Readers :
       \/ FindCall(r, ReaderQueries)
       \/ FindLookup(r)
       \/ FindStep(r)
       \/ FindReturn(r)
       \/ FilterCall(r, ReaderMatchers)
       \/ FilterStep(r)
       \/ FilterReturn(r)
SpecReaders == InitReaders /\ [][NextReaders]_vars

(* C20: once Load has finished, no step of a thread that runs              *)
(* FindCompilationEntryForFile or ForAllFilteredFiles, however the threads *)
(* interleave, changes entries or the lookup map, and a lookup that        *)
(* returns hands back what the same lookup returns when run alone on the   *)
(* index as loaded.                                                        *)
C20_ReadersLeaveIndexFrozen ==
  [][pc = "loaded" =>
       /\ entries' = entries
       /\ absolute_path_to_entry_index_' = absolute_path_to_entry_index_
       /\ \A r \in Readers :
            readers'[r].pc = "find_done" =>
              readers'[r].result =
                FindCompilationEntryForFile(readers'[r].filename)
    ]_vars

C20_Witness ==
  /\ pc = "loaded"
  /\ Len(entries) = 2
  /\ readers["r1"].pc = "find_done"
  /\ readers["r1"].filename = file_a_b_z
  /\ readers["r1"].result.is_inferred
  /\ readers["r1"].result.args = entries[2].args
  /\ readers["r2"].pc = "filter_loop"
  /\ readers["r2"].i = 1
  /\ Len(readers["r2"].actions) = 1
  /\ file_a_b_z \notin DOMAIN absolute_path_to_entry_index_

(* ------------------------- walk over the index -------------------------- *)
(* The positions (0-based) below i whose entry the matcher of r accepts. *)
AcceptedBelow(r, i) ==
  {k \in 0..(i - 1) : entries[k + 1].filename \in readers[r].matched}

WalkConforms(r) ==
  LET done == AcceptedBelow(r, readers[r].i)
      acts == readers[r].actions
  IN /\ readers[r].i <= Len(entries)
     /\ readers[r].pc = "filter_done" => readers[r].i = Len(entries)
     /\ Len(acts) = Cardinality(done)
     /\ \A n \in 1..Len(acts) :
          /\ acts[n][1] \in done
          /\ acts[n][2] = entries[acts[n][1] + 1]
     /\ \A n, m \in 1..Len(acts) : n < m => acts[n][1] < acts[m][1]

(* C21: at every step of a walk by ForAllFilteredFiles the action has been *)
(* invoked exactly once for each entry passed so far that the matcher      *)
(* accepts, with (position, entry) and in strictly increasing position     *)
(* order, never for a rejected entry; when the walk returns every entry    *)
(* has been passed; no step of the walk changes entries.                   *)
C21_ActionOncePerAcceptedEntryInOrder ==
  [][pc = "loaded" =>
       /\ entries' = entries
       /\ \A r \in Readers :
            readers'[r].pc \in {"filter_loop", "filter_done"} => WalkConforms(r)'
    ]_vars

C21_Witness ==
  /\ pc = "loaded"
  /\ Len(entries) = 3
  /\ entries[1].filename = file_a_x
  /\ entries[2].filename = file_a_b_x
  /\ entries[3].filename = file_a_x
  /\ readers["r1"].pc = "filter_done"
  /\ readers["r1"].matched = {file_a_x}
  /\ readers["r1"].actions = << <<0, entries[1]>>, <<2, entries[3]>> >>

(* ----------------------- calls within one process ----------------------- *)
(* The number of classifier calls one process makes before it stops. *)
MaxCalls == 3

(* The caller takes the returned Entry and goes on (line 275, 344, 490, 1260). *)
Return ==
  /\ pc = "done"
  /\ ~aborted
  /\ Cardinality(calls) < MaxCalls
  /\ pc' = "ready"
  /\ UNCHANGED <<g_disable_normalize_path_for_test, config, entry, result,
                 aborted, lead, kept, calls>>
  /\ UNCHANGED projectVars

(* TEST_CASE "Directory extraction" up to its call of the classifier: a    *)
(* ProjectConfig of its own with only project_dir set, and no write of the *)
(* normalization switch.                                                   *)
DirectCall(Args, Files, Dirs) ==
  /\ pc = "ready"
  /\ config' = [quote_dirs |-> {}, angle_dirs |-> {}, extra_flags |-> <<>>,
                project_dir |-> kTestProjectDir, resource_dir |-> <<>>]
  /\ \E a \in Args, f \in Files, d \in Dirs :
       entry' = [directory |-> d, file |-> f, args |-> a]
  /\ pc' = "called"
  /\ UNCHANGED <<g_disable_normalize_path_for_test, result, aborted, lead,
                 kept, calls>>
  /\ UNCHANGED projectVars

ProcessTokens == {tok_cc, tok_Ie}
ProcessArgs == {<<tok_cc>>, <<tok_cc, tok_Ie>>}
ProcessFiles == {file_a_cc}
ProcessDirs == {dir_d}

InitProcess == InitWith({<<>>})
NextProcess ==
  \/ DirectCall(ProcessArgs, ProcessFiles, ProcessDirs)
  \/ CheckFlags(ProcessTokens, ProcessFiles, ProcessDirs)
  \/ Classify
  \/ Return
SpecProcess == InitProcess /\ [][NextProcess]_vars

(* C22: two classifier calls of one process that were given the same      *)
(* directory, file and raw arguments and the same accumulator returned the *)
(* same Entry and left the same accumulator, whatever was called between   *)
(* them.                                                                   *)
C22_SameInputsSameOutputs ==
  \A c1, c2 \in calls :
    (c1.entry = c2.entry /\ c1.config = c2.config)
      => (c1.result = c2.result /\ c1.config_out = c2.config_out)

(* ------------------------- the score of a guess ------------------------- *)
ScoreFiles == {file_c_su, file_a_d_e_c, file_y}
ScoreQueries == {file_mb, file_a_bb, file_y}

(* No thread is inside one of the two reading functions. *)
Quiescent ==
  \A r \in Readers : readers[r].pc \in {"idle", "find_done", "filter_done"}

InitScore == InitWith({<<>>})
NextScore ==
  \/ Quiescent /\ PushEntry(ScoreFiles)
  \/ \E r \in Readers :
       \/ FindCall(r, ScoreQueries)
       \/ FindLookup(r)
       \/ FindStep(r)
       \/ FindReturn(r)
SpecScore == InitScore /\ [][NextScore]_vars

(* 100 per character of the longest common prefix, less 100 per '/' of     *)
(* either name at or after the end of that prefix, plus 1 per character of *)
(* the longest common suffix, which is counted from the ends.              *)
GuessScore(a, b) ==
  LET i == CommonStart(a, b)
  IN 100 * i - 100 * SlashCount(a, i) - 100 * SlashCount(b, i)
     + CommonEnding(a, b)

(* C23: the score the inference loop computes for the query and an entry   *)
(* is 100 per common leading character, less 100 per '/' of either name    *)
(* from the end of the common prefix on, plus 1 per common trailing        *)
(* character; it has no floor: the best score after i entries is the       *)
(* largest of these values over the entries passed, negative or not.       *)
C23_GuessScoreValue ==
  \A r \in Readers :
    (readers[r].pc = "find_loop" /\ readers[r].i >= 1) =>
      /\ readers[r].i <= Len(entries)
      /\ readers[r].best_score =
           MaxOf({GuessScore(readers[r].filename, EntryName(k)) :
                    k \in 1..readers[r].i})

C23_Witness ==
  /\ readers["r1"].pc = "find_loop"
  /\ readers["r1"].i = 2
  /\ readers["r1"].filename = file_mb
  /\ EntryName(1) = file_a_d_e_c
  /\ EntryName(2) = file_c_su
  /\ readers["r1"].best_score = -98

(* ------------------- tokens that look like a filename ------------------- *)
tok_dot_goma == <<".", "/", "a", "/", "b", "/", "g", "o", "m", "a">>
tok_foo_c == <<"f", "o", "o", ".", "c">>
tok_foo_cpp == <<"f", "o", "o", ".", "c", "p", "p">>
tok_a_c_1 == <<"a", ".", "c", ".", "1">>
tok_foo_dot == <<"f", "o", "o", ".">>

LooksTokens == {tok_dot_goma, tok_clang40, tok_foo_c, tok_foo_cpp, tok_a_c_1,
                tok_foo_dot, tok_O, tok_mk}
LooksFiles == {file_f_cc, tok_mk}
LooksDirs == {dir_d}

InitLooks == InitWith({<<>>})
NextLooks ==
  \/ BuildEntry(LooksTokens, LooksFiles, LooksDirs)
  \/ CheckFlags(LooksTokens, LooksFiles, LooksDirs)
  \/ Classify
SpecLooks == InitLooks /\ [][NextLooks]_vars

DecimalDigits == {"0", "1", "2", "3", "4", "5", "6", "7", "8", "9"}

(* The positions of tok, among its last 4, that hold a '.' not followed by *)
(* a digit.                                                                *)
LateDots(tok) ==
  {p \in 1..Len(tok) :
     /\ tok[p] = "."
     /\ p > Len(tok) - 4
     /\ (p < Len(tok) => tok[p + 1] \notin DecimalDigits)}

(* Some '.' among the last 4 characters is not followed by a digit. *)
SomeLateDot(tok) == LateDots(tok) # {}

(* The last '.' of the token is among its last 4 characters and is not *)
(* followed by a digit.                                                *)
LastDotLate(tok) ==
  \E p \in LateDots(tok) : \A q \in (p + 1)..Len(tok) : tok[q] # "."

(* The raw index at which a scan stops that skips a token unless it starts *)
(* with '-', names the file of the Entry, or looks like a filename.        *)
StopIndex(looks(_)) ==
  LET stops == {i \in 0..(Len(entry.args) - 1) :
                  LET tok == entry.args[i + 1]
                  IN \/ (tok # <<>> /\ tok[1] = "-")
                     \/ NormalizePathWithTestOptOut(tok) = result.filename
                     \/ looks(tok)}
  IN IF stops = {} THEN Len(entry.args) ELSE MinOf(stops)

(* What a scan that stops at raw index k leaves in the Entry: the token *)
(* before k as the compiler, and every token from k on carried over.    *)
ScanStoppedAt(k) ==
  /\ result.args[1] = IF k > 0 THEN entry.args[k] ELSE kDummyCompiler
  /\ kept = [n \in 1..(Len(entry.args) - k) |-> k + n - 1]

tok_sysroot == <<"-", "-", "s", "y", "s", "r", "o", "o", "t", "=">>
tok_isysroot == <<"-", "i", "s", "y", "s", "r", "o", "o", "t">>

RewriteTokens ==
  {tok_cc, path_a, tok_sysroot, tok_sysroot \o path_a, tok_I, tok_isystem,
   tok_isysroot \o path_a, tok_iquote \o path_a}
RewriteFiles == {file_f_cc}
RewriteDirs == {dir_d}

InitRewrite == InitWith({<<>>})
NextRewrite ==
  \/ BuildEntry(RewriteTokens, RewriteFiles, RewriteDirs)
  \/ CheckFlags(RewriteTokens, RewriteFiles, RewriteDirs)
  \/ Classify
SpecRewrite == InitRewrite /\ [][NextRewrite]_vars

(* The path flags a token spells in fused form, and the path it carries. *)
FusedFlags(tok) == {f \in PathBearingFlags : StartsWith(tok, f) /\ tok # f}
FusedPath(tok, f) == SubSeq(tok, Len(f) + 1, Len(tok))

(* Raw token i is carried into args as text. *)
EmittedAs(i, text) ==
  \E n \in 1..Len(kept) : kept[n] = i /\ CarriedArg(n) = text

(* The side set that collects the paths of flag f holds path p. *)
InSideSet(f, p) ==
  /\ f = tok_iquote => Absolutized(entry.directory, p) \in config.quote_dirs
  /\ f \in {tok_I, tok_isystem} =>
       Absolutized(entry.directory, p) \in config.angle_dirs

(* C25: of the path flags the filter loop meets, a fused --sysroot= is     *)
(* carried into args as --sysroot= followed by the absolutized path; any   *)
(* other fused path flag, every split path flag and every split path value *)
(* is carried with its raw text; the absolutized path of -I, -isystem and  *)
(* -iquote, fused or split, is in the matching side set.                   *)
C25_OnlyFusedSysrootRewritten ==
  Returned =>
    LET k == ScanStop(entry.args, result.filename)
    IN \A i \in RawIndices :
         LET role == TokenRole(entry.args, k, i)
             raw == RawAt(i)
         IN /\ role = "flag" => EmittedAs(i, raw)
            /\ role = "value" =>
                 /\ EmittedAs(i, raw)
                 /\ InSideSet(RawAt(i - 1), raw)
            /\ role = "other" =>
                 \A f \in FusedFlags(raw) :
                   /\ InSideSet(f, FusedPath(raw, f))
                   /\ EmittedAs(i, IF f = tok_sysroot
                                     THEN f \o Absolutized(entry.directory,
                                                           FusedPath(raw, f))
                                     ELSE raw)

C25_Witness ==
  /\ Returned
  /\ ~g_disable_normalize_path_for_test
  /\ entry.args = <<tok_sysroot \o path_a, tok_iquote \o path_a, tok_sysroot>>
  /\ CarriedArg(1) = tok_sysroot \o <<"/", "d", "/", "a">>
  /\ CarriedArg(2) = tok_iquote \o path_a
  /\ CarriedArg(3) = tok_sysroot
  /\ config.quote_dirs = {<<"/", "d", "/", "a">>}

(* ---------------- injected dialect and standard, apart ------------------ *)
(* The tokens of the given name among the args pushed before the filter *)
(* loop, the compiler excluded.                                         *)
InjectedStartingWith(name) ==
  {LeadArgs[j] : j \in {n \in 2..lead : StartsWith(LeadArgs[n], name)}}

RawHas(name) == \E j \in 1..Len(entry.args) : StartsWith(entry.args[j], name)

(* The default standard of an extension: gnu11 for .c, c++14 for .cpp and *)
(* .cc, none for anything else.                                           *)
ExtensionStandard(file) ==
  IF ExtensionDialect(file) = <<"c">>
    THEN {<<"-", "s", "t", "d", "=", "g", "n", "u", "1", "1">>}
  ELSE IF ExtensionDialect(file) = <<"c", "+", "+">>
    THEN {<<"-", "s", "t", "d", "=", "c", "+", "+", "1", "4">>}
  ELSE {}

(* C26: the standard flag pushed before the filter loop is the default of  *)
(* the file extension when no raw token starts with -std=, whether or not  *)
(* a raw -x is present and whatever it names, and none otherwise; the      *)
(* -x<dialect> of a recognized extension is pushed when no raw token       *)
(* starts with -x, whether or not a raw -std= is present, and none         *)
(* otherwise.                                                              *)
C26_StandardAndDialectInjectedApart ==
  Returned =>
    /\ InjectedStartingWith(<<"-", "s", "t", "d", "=">>) =
         IF RawHas(<<"-", "s", "t", "d", "=">>) THEN {}
         ELSE ExtensionStandard(entry.file)
    /\ InjectedStartingWith(<<"-", "x">>) =
         IF RawHas(<<"-", "x">>) \/ ExtensionDialect(entry.file) = <<>> THEN {}
         ELSE {<<"-", "x">> \o ExtensionDialect(entry.file)}

C26_Witness ==
  /\ Returned
  /\ entry.file = file_a_cpp
  /\ entry.args = <<tok_cc, tok_xc>>
  /\ LeadArgs = <<tok_cc, kWorkingDirectory, dir_d,
                  <<"-", "s", "t", "d", "=", "c", "+", "+", "1", "4">> >>

(* ------------------ a path flag as a token of its own ------------------- *)
tok_include == <<"-", "i", "n", "c", "l", "u", "d", "e">>
tok_include_pch == <<"-", "i", "n", "c", "l", "u", "d", "e", "-", "p", "c", "h">>

FusedTokens ==
  PathBearingFlags \cup {tok_include \o path_a, tok_include_pch \o path_a, tok_MF}
FusedFiles == {file_f_cc}
FusedDirs == {dir_d}

InitFused == InitWith({<<>>})
NextFused ==
  \/ BuildEntry(FusedTokens, FusedFiles, FusedDirs)
  \/ Classify
SpecFused == InitFused /\ [][NextFused]_vars

(* C27: over raw lists of path flags in split and fused spelling the       *)
(* assertion on the path of a fused flag never fails, the call returns;    *)
(* and a token equal to a path flag that the filter loop meets is taken as *)
(* the split spelling of that flag: it is carried as it is and the token   *)
(* after it is carried as its path value, whatever that token is.          *)
C27_FusedPathNeverEmpty ==
  pc = "done" =>
    /\ ~aborted
    /\ LET k == ScanStop(entry.args, result.filename)
       IN \A i \in RawIndices :
            (RawAt(i) \in PathBearingFlags
             /\ TokenRole(entry.args, k, i) \notin {"value", "consumed"}) =>
              /\ EmittedAs(i, RawAt(i))
              /\ i + 1 < Len(entry.args) => EmittedAs(i + 1, RawAt(i + 1))

C27_Witness ==
  /\ pc = "done"
  /\ ~aborted
  /\ entry.args = <<tok_include_pch, tok_MF, tok_include \o path_a>>
  /\ kept = <<0, 1, 2>>

====
